---- MODULE Spec2Model ----
(***************************************************************************)
(* The REST routes of src/routes.ts over the relational schema of          *)
(* src/schema.ts: medications, their reminders, caregivers and the         *)
(* user-caregiver links, each request handled by one handler that checks   *)
(* the session, the target resource and its owner around its calls to the  *)
(* persistence gateway `storage`.                                          *)
(*                                                                         *)
(* One action is one request: the handler from ensureAuthenticated to the  *)
(* response it sends, its storage calls included.  Handlers run one at a   *)
(* time: req and res hold the request being answered and its response      *)
(* until Deliver ends the exchange; the other variables are the tables of  *)
(* the store with the serials of their id columns.                         *)
(*                                                                         *)
(* The gateway itself (./storage) is not among the sources: its            *)
(* operations are written here from its contract in spec.md (sections 3,   *)
(* 4.3, 4.4) and from the constraints src/schema.ts declares on the        *)
(* tables.  GET /api/health and PUT /api/profile touch none of these       *)
(* tables and are left out.                                                *)
(***************************************************************************)
EXTENDS Integers, Sequences, FiniteSets, TLC

VARIABLES medications, medicationSeq, medicationReminders, reminderSeq,
          caregivers, caregiverSeq, userCaregivers, userCaregiverSeq,
          req, res

medStore == <<medications, medicationSeq, medicationReminders, reminderSeq>>
careStore == <<caregivers, caregiverSeq, userCaregivers, userCaregiverSeq>>
store == <<medStore, careStore>>
vars == <<store, req, res>>

\* ------------------------------------------------------------------ bounds

\* Rows the serials of medications, reminders and caregivers may hand out
\* together before the model stops inserting.
MaxRows == 3

SerialsUsed == medicationSeq + reminderSeq + caregiverSeq

\* ------------------------------------------------------------ JSON values

\* A value of a JSON request body, or a property the body does not carry.
Undefined == [type |-> "undefined", num |-> 0, str |-> "", bool |-> FALSE]
Num(n) == [type |-> "number", num |-> n, str |-> "", bool |-> FALSE]
Str(s) == [type |-> "string", num |-> 0, str |-> s, bool |-> FALSE]
Bool(b) == [type |-> "boolean", num |-> 0, str |-> "", bool |-> b]

\* JavaScript truthiness, as `a || b` tests it.
Truthy(v) ==
    \/ v.type = "number" /\ v.num # 0
    \/ v.type = "string" /\ v.str # ""
    \/ v.type = "boolean" /\ v.bool

\* ---------------------------------------------------------------- sessions

\* The registered users (registration lives in ./auth).
Users == {1, 2}

\* What the session middleware attaches to a request.
Sessions ==
    {[isAuthenticated |-> TRUE, user |-> u] : u \in Users}
        \cup {[isAuthenticated |-> FALSE, user |-> 0]}

ensureAuthenticated(session) == session.isAuthenticated

\* ------------------------------------------------------------ :id params

Digits == <<"0", "1", "2", "3", "4", "5", "6", "7", "8", "9">>

IsDigit(c) == \E d \in 1..Len(Digits) : Digits[d] = c

DigitValue(c) == (CHOOSE d \in 1..Len(Digits) : Digits[d] = c) - 1

\* parseInt's result on a text with no leading digit.
NaN == -1

RECURSIVE ParseDigits(_, _)
ParseDigits(s, acc) ==
    IF s = <<>> \/ ~IsDigit(Head(s))
    THEN acc
    ELSE ParseDigits(Tail(s), acc * 10 + DigitValue(Head(s)))

\* parseInt(req.params.id): the longest leading run of decimal digits, the
\* rest of the text ignored; NaN when the text starts with no digit.  (The
\* texts of the model carry no sign, no leading blank and no 0x prefix.)
parseInt(s) ==
    IF s = <<>> \/ ~IsDigit(Head(s)) THEN NaN ELSE ParseDigits(s, 0)

\* The :id texts requests carry: the ids the serials may hand out, a text
\* that is no number, and a number followed by other text.
IdParams ==
    {<<Digits[i + 1]>> : i \in 1..MaxRows}
        \cup {<<"x">>, <<"1", "x">>}

NoParam == <<>>

\* ------------------------------------------------------------------ tables

\* A table maps the ids of its rows to the rows; NoRows is the empty table.
NoRows == <<>>

Rows(table) == {table[i] : i \in DOMAIN table}

Insert(table, row) == table @@ (row.id :> row)

Remove(table, ids) == [i \in DOMAIN table \ ids |-> table[i]]

\* A lookup that may find nothing gives the set of the rows found: {} is
\* JavaScript's undefined, {row} the row.
Find(table, id) == {table[i] : i \in DOMAIN table \cap {id}}

The(found) == CHOOSE row \in found : TRUE

\* --------------------------------------------------- validation (schema.ts)

\* The bodies of POST /api/medications and PUT /api/medications/:id.  Of the
\* columns of medications the model keeps userId and name; dosage,
\* frequency, startTime, notes and active are validated and stored like
\* name and no route branches on them.
MedicationBodies ==
    [userId : {Undefined, Str("2")} \cup {Num(u) : u \in Users},
     name : {Undefined, Str("Aspirin"), Str("Ibuprofen"), Num(7)}]

\* medicationSchema: createInsertSchema(medications) without id and
\* createdAt; userId stays a column of it.
medicationSchema(data) ==
    /\ data.userId.type = "number"
    /\ data.name.type = "string"

\* medicationSchema.partial(): every column optional, typed when present.
medicationSchemaPartial(data) ==
    /\ data.userId.type \in {"undefined", "number"}
    /\ data.name.type \in {"undefined", "string"}

\* medicationFormSchema extends medicationSchema (frequency, startTime).
medicationFormSchema(data) == medicationSchema(data)

MinPasswordLength == 8

\* z.string().email(): the texts of the model that are addresses.
EmailAddresses == {"carol@example.com"}

\* The bodies of POST /api/caregivers; accessLevel is read from the raw body
\* (routes.ts:230) and is no field of caregiverFormSchema.
CaregiverBodies ==
    [username : {Str("carol"), Str("dave")},
     password : {Str("secret123"), Str("short")},
     confirmPassword : {Str("secret123"), Str("short")},
     email : {Str("carol@example.com"), Str("carol")},
     accessLevel : {Undefined, Str(""), Str("limited"), Num(5)}]

\* caregiverSchema extended with email, password and confirmPassword.
caregiverFormFields(data) ==
    /\ data.username.type = "string"
    /\ data.email.type = "string" /\ data.email.str \in EmailAddresses
    /\ data.password.type = "string"
    /\ Len(data.password.str) >= MinPasswordLength
    /\ data.confirmPassword.type = "string"

\* The .refine() of caregiverFormSchema.
passwordsMatch(data) == data.password = data.confirmPassword

\* caregiverFormSchema without its .refine().
caregiverFormSchemaNoRefine(data) == caregiverFormFields(data)

caregiverFormSchema(data) == caregiverFormFields(data) /\ passwordsMatch(data)

\* userCaregiverSchema: accessLevel is text, active a boolean; both columns
\* have defaults and may be left out.
userCaregiverSchema(data) ==
    /\ data.accessLevel.type \in {"undefined", "string"}
    /\ data.active.type \in {"undefined", "boolean"}

\* The bodies of PUT /api/reminders/:id and PUT /api/caregivers/:id/access;
\* neither route validates its body.
ReminderBodies ==
    [taken : {Undefined, Bool(TRUE), Bool(FALSE)},
     skipped : {Undefined, Bool(TRUE)}]

AccessBodies ==
    [accessLevel : {Undefined, Str("limited")},
     active : {Undefined, Bool(TRUE), Bool(FALSE)}]

NoBody == [empty |-> TRUE]

\* ------------------------------------------------ the persistence gateway

getMedication(id) == Find(medications, id)

getMedications(userId) == {m \in Rows(medications) : m.userId = userId}

\* The row createMedication inserts; id is the next value of the serial.
newMedication(data) ==
    [id |-> medicationSeq + 1, userId |-> data.userId.num,
     name |-> data.name.str]

\* updateMedication(id, data): the columns data carries replace the row's.
updatedMedication(id, data) ==
    [medications[id] EXCEPT
        !.userId = IF data.userId.type = "undefined" THEN @
                   ELSE data.userId.num,
        !.name = IF data.name.type = "undefined" THEN @ ELSE data.name.str]

getMedicationReminders(medicationId) ==
    {r \in Rows(medicationReminders) : r.medicationId = medicationId}

\* What the store does with the reminders of a medication being deleted:
\* the foreign key of schema.ts:47 refuses the delete, or the rows stay
\* behind, or the store deletes them too (spec.md section 3 leaves it to
\* the store).
DeleteModes == {"restrict", "orphan", "cascade"}

\* deleteMedication(id) resolves true when it deleted the row.
deleteSucceeds(id, mode) ==
    /\ id \in DOMAIN medications
    /\ mode = "restrict" => getMedicationReminders(id) = {}

getMedicationReminder(id) == Find(medicationReminders, id)

\* The row createMedicationReminder inserts, with the column defaults of
\* schema.ts:49-51.
newReminder(medicationId) ==
    [id |-> reminderSeq + 1, medicationId |-> medicationId,
     taken |-> FALSE, takenAt |-> "null", skipped |-> FALSE]

\* updateMedicationReminder(id, taken, skipped): the flags given replace the
\* row's, and takenAt follows taken.
updatedReminder(id, taken, skipped) ==
    [medicationReminders[id] EXCEPT
        !.taken = IF taken.type = "undefined" THEN @ ELSE Truthy(taken),
        !.takenAt = IF taken.type = "undefined" THEN @
                    ELSE IF Truthy(taken) THEN "now" ELSE "null",
        !.skipped = IF skipped.type = "undefined" THEN @
                    ELSE Truthy(skipped)]

getCaregiverByUsername(username) ==
    {c \in Rows(caregivers) : c.username = username}

newCaregiver(data) ==
    [id |-> caregiverSeq + 1, username |-> data.username.str]

\* The row linkCaregiverToUser inserts; a column left out takes its default
\* (schema.ts:71-72).
newUserCaregiver(data) ==
    [id |-> userCaregiverSeq + 1, userId |-> data.userId,
     caregiverId |-> data.caregiverId,
     accessLevel |-> IF data.accessLevel.type = "undefined" THEN "full"
                     ELSE data.accessLevel.str,
     active |-> IF data.active.type = "undefined" THEN TRUE
                ELSE data.active.bool]

getUserCaregiver(id) == Find(userCaregivers, id)

\* updateCaregiverAccess(id, accessLevel, active).
updatedUserCaregiver(id, accessLevel, active) ==
    [userCaregivers[id] EXCEPT
        !.accessLevel = IF accessLevel.type = "undefined" THEN @
                        ELSE accessLevel.str,
        !.active = IF active.type = "undefined" THEN @ ELSE Truthy(active)]

\* getCaregivers(userId): the caregivers linked to the user, each with the
\* access level of its link.
getCaregivers(userId) ==
    {[id |-> l.caregiverId, accessLevel |-> l.accessLevel] :
        l \in {k \in Rows(userCaregivers) : k.userId = userId}}

\* ------------------------------------------------------------ the routes

Request(route, session, param, body) ==
    [route |-> route, session |-> session, id |-> param, body |-> body]

Respond(status, json) == [status |-> status, json |-> json]

Error(status, message) == Respond(status, [error |-> message])

NoRequest ==
    Request("none", [isAuthenticated |-> FALSE, user |-> 0], NoParam, NoBody)

NoResponse == Respond(0, NoBody)

\* No request is being handled: handlers run one at a time, each from its
\* first check to its response.
Idle == req = NoRequest

\* MedicationAccess with the ownership check left out.
MedicationAccessNoOwner(session, id) ==
    IF getMedication(id) = {} THEN 404 ELSE 200

\* MedicationAccess with the two checks merged into one, as the reminder
\* route merges them.
MedicationAccessMerged(session, id) ==
    IF getMedication(id) = {} THEN 403
    ELSE IF The(getMedication(id)).userId # session.user THEN 403
    ELSE 200

\* The checks the four /api/medications/:id routes share: the medication is
\* fetched, 404 if there is none, 403 if it is another user's, else the
\* route goes on (200).
MedicationAccess(session, id) ==
    IF getMedication(id) = {} THEN 404
    ELSE IF The(getMedication(id)).userId # session.user THEN 403
    ELSE 200

MedicationDenied(status) ==
    IF status = 404 THEN Error(404, "Medication not found")
    ELSE Error(403, "Unauthorized access to medication")

\* GET /api/medications
ListMedications(session) ==
    /\ req' = Request("GET /api/medications", session, NoParam, NoBody)
    /\ res' = IF ~ensureAuthenticated(session) THEN Error(401, "Unauthorized")
              ELSE Respond(200, [items |-> getMedications(session.user)])
    /\ UNCHANGED store

\* GET /api/medications/:id
GetMedication(session, param) ==
    LET id == parseInt(param)
        access == MedicationAccess(session, id)
    IN  /\ req' = Request("GET /api/medications/:id", session, param, NoBody)
        /\ res' = IF ~ensureAuthenticated(session)
                  THEN Error(401, "Unauthorized")
                  ELSE IF access # 200 THEN MedicationDenied(access)
                  ELSE Respond(200, The(getMedication(id)))
        /\ UNCHANGED store

\* POST /api/medications: the body is parsed with userId set to the session
\* user's id, then inserted.
PostMedication(session, body) ==
    LET data == [body EXCEPT !.userId = Num(session.user)]
        creates == ensureAuthenticated(session) /\ medicationFormSchema(data)
    IN  /\ creates => SerialsUsed < MaxRows
        /\ req' = Request("POST /api/medications", session, NoParam, body)
        /\ IF ~ensureAuthenticated(session)
           THEN /\ res' = Error(401, "Unauthorized")
                /\ UNCHANGED store
           ELSE IF ~medicationFormSchema(data)
           THEN /\ res' = Error(400, "ZodError")
                /\ UNCHANGED store
           ELSE /\ medications' = Insert(medications, newMedication(data))
                /\ medicationSeq' = medicationSeq + 1
                /\ res' = Respond(201, newMedication(data))
                /\ UNCHANGED <<medicationReminders, reminderSeq, careStore>>

\* PUT /api/medications/:id
PutMedication(session, param, body) ==
    LET id == parseInt(param)
        access == MedicationAccess(session, id)
    IN  /\ req' = Request("PUT /api/medications/:id", session, param, body)
        /\ IF ~ensureAuthenticated(session)
           THEN /\ res' = Error(401, "Unauthorized")
                /\ UNCHANGED store
           ELSE IF access # 200
           THEN /\ res' = MedicationDenied(access)
                /\ UNCHANGED store
           ELSE IF ~medicationSchemaPartial(body)
           THEN /\ res' = Error(400, "ZodError")
                /\ UNCHANGED store
           ELSE /\ medications' =
                      [medications EXCEPT ![id] = updatedMedication(id, body)]
                /\ res' = Respond(200, updatedMedication(id, body))
                /\ UNCHANGED <<medicationSeq, medicationReminders,
                               reminderSeq, careStore>>

\* DELETE answering 200 where it answers 204.
DeleteStatusOk(success) == IF success THEN 200 ELSE 500

\* The response of DELETE once deleteMedication has resolved.
DeleteStatus(success) == IF success THEN 204 ELSE 500

\* DELETE /api/medications/:id
DeleteMedication(session, param, mode) ==
    LET id == parseInt(param)
        access == MedicationAccess(session, id)
        success == deleteSucceeds(id, mode)
        orphans == {r.id : r \in getMedicationReminders(id)}
    IN  /\ req' = Request("DELETE /api/medications/:id", session, param, NoBody)
        /\ IF ~ensureAuthenticated(session)
           THEN /\ res' = Error(401, "Unauthorized")
                /\ UNCHANGED store
           ELSE IF access # 200
           THEN /\ res' = MedicationDenied(access)
                /\ UNCHANGED store
           ELSE IF ~success
           THEN /\ res' = Error(DeleteStatus(success),
                                "Failed to delete medication")
                /\ UNCHANGED store
           ELSE /\ medications' = Remove(medications, {id})
                /\ medicationReminders' =
                      IF mode = "cascade"
                      THEN Remove(medicationReminders, orphans)
                      ELSE medicationReminders
                /\ res' = Respond(DeleteStatus(success), NoBody)
                /\ UNCHANGED <<medicationSeq, reminderSeq, careStore>>

\* GET /api/medications/:id/reminders
GetMedicationReminders(session, param) ==
    LET id == parseInt(param)
        access == MedicationAccess(session, id)
    IN  /\ req' = Request("GET /api/medications/:id/reminders", session,
                          param, NoBody)
        /\ res' = IF ~ensureAuthenticated(session)
                  THEN Error(401, "Unauthorized")
                  ELSE IF access # 200 THEN MedicationDenied(access)
                  ELSE Respond(200, [items |-> getMedicationReminders(id)])
        /\ UNCHANGED store

\* Whether the session user may see a reminder of the medication found.
ReminderAccess(session, medication) ==
    IF medication = {} \/ The(medication).userId # session.user
    THEN 403 ELSE 200

\* PUT /api/reminders/:id: the reminder is updated first; its medication is
\* fetched and compared with the session user afterwards.
PutReminder(session, param, body) ==
    LET id == parseInt(param)
        found == getMedicationReminder(id) # {}
        updated == updatedReminder(id, body.taken, body.skipped)
        access == ReminderAccess(session, getMedication(updated.medicationId))
    IN  /\ req' = Request("PUT /api/reminders/:id", session, param, body)
        /\ IF ~ensureAuthenticated(session)
           THEN /\ res' = Error(401, "Unauthorized")
                /\ UNCHANGED store
           ELSE IF ~found
           THEN /\ res' = Error(404, "Reminder not found")
                /\ UNCHANGED store
           ELSE /\ medicationReminders' =
                      [medicationReminders EXCEPT ![id] = updated]
                /\ res' = IF access = 403
                          THEN Error(403, "Unauthorized access to reminder")
                          ELSE Respond(200, updated)
                /\ UNCHANGED <<medications, medicationSeq, reminderSeq,
                               careStore>>

\* storage.createMedicationReminder, called by no route of routes.ts: the
\* reminders of a medication enter the store beside the HTTP requests.
CreateReminder(medicationId) ==
    /\ SerialsUsed < MaxRows
    /\ medicationId \in DOMAIN medications
    /\ medicationReminders' =
          Insert(medicationReminders, newReminder(medicationId))
    /\ reminderSeq' = reminderSeq + 1
    /\ UNCHANGED <<medications, medicationSeq, careStore, req, res>>

\* GET /api/caregivers
ListCaregivers(session) ==
    /\ req' = Request("GET /api/caregivers", session, NoParam, NoBody)
    /\ res' = IF ~ensureAuthenticated(session) THEN Error(401, "Unauthorized")
              ELSE Respond(200, [items |-> getCaregivers(session.user)])
    /\ UNCHANGED store

\* The route without its lookup by username.
NoUsernameLookup(data) == FALSE

\* The lookup by username before the insert.
DuplicateUsername(data) == getCaregiverByUsername(data.username.str) # {}

\* The link always given the default level.
linkAccessLevelDefault(body) == Str("full")

\* req.body.accessLevel || "full"
linkAccessLevel(body) ==
    IF Truthy(body.accessLevel) THEN body.accessLevel ELSE Str("full")

\* POST /api/caregivers: validate the form, look the username up, insert the
\* caregiver, validate the link, insert the link.  The insert of a username
\* the table already holds breaks the unique constraint of schema.ts:57 and
\* throws (500).  A link that fails userCaregiverSchema is answered 400 with
\* the caregiver already inserted.
PostCaregiver(session, body) ==
    LET caregiver == newCaregiver(body)
        link == [userId |-> session.user, caregiverId |-> caregiver.id,
                 accessLevel |-> linkAccessLevel(body), active |-> Bool(TRUE)]
        userCaregiver == newUserCaregiver(link)
        inserts == /\ ensureAuthenticated(session)
                   /\ caregiverFormSchema(body)
                   /\ ~DuplicateUsername(body)
                   /\ getCaregiverByUsername(body.username.str) = {}
    IN  /\ inserts => SerialsUsed < MaxRows
        /\ req' = Request("POST /api/caregivers", session, NoParam, body)
        /\ IF ~ensureAuthenticated(session)
           THEN /\ res' = Error(401, "Unauthorized")
                /\ UNCHANGED store
           ELSE IF ~caregiverFormSchema(body)
           THEN /\ res' = Error(400, "ZodError")
                /\ UNCHANGED store
           ELSE IF DuplicateUsername(body)
           THEN /\ res' = Error(400, "Username already exists")
                /\ UNCHANGED store
           ELSE IF getCaregiverByUsername(body.username.str) # {}
           THEN /\ res' = Error(500, "Failed to create caregiver")
                /\ UNCHANGED store
           ELSE /\ caregivers' = Insert(caregivers, caregiver)
                /\ caregiverSeq' = caregiverSeq + 1
                /\ IF ~userCaregiverSchema(link)
                   THEN /\ res' = Error(400, "ZodError")
                        /\ UNCHANGED <<userCaregivers, userCaregiverSeq>>
                   ELSE /\ userCaregivers' =
                              Insert(userCaregivers, userCaregiver)
                        /\ userCaregiverSeq' = userCaregiverSeq + 1
                        /\ res' = Respond(201,
                              [id |-> caregiver.id,
                               username |-> caregiver.username,
                               accessLevel |-> userCaregiver.accessLevel])
                /\ UNCHANGED medStore

\* PUT /api/caregivers/:id/access: the link is updated first and its userId
\* compared with the session user afterwards.
PutCaregiverAccess(session, param, body) ==
    LET id == parseInt(param)
        found == getUserCaregiver(id) # {}
        updated == updatedUserCaregiver(id, body.accessLevel, body.active)
    IN  /\ req' = Request("PUT /api/caregivers/:id/access", session, param,
                          body)
        /\ IF ~ensureAuthenticated(session)
           THEN /\ res' = Error(401, "Unauthorized")
                /\ UNCHANGED store
           ELSE IF ~found
           THEN /\ res' = Error(404, "Caregiver link not found")
                /\ UNCHANGED store
           ELSE /\ userCaregivers' = [userCaregivers EXCEPT ![id] = updated]
                /\ res' = IF updated.userId # session.user
                          THEN Error(403, "Unauthorized access to caregiver")
                          ELSE Respond(200, updated)
                /\ UNCHANGED <<caregivers, caregiverSeq, userCaregiverSeq,
                               medStore>>

\* ------------------------------------------------------- the specifications

\* The server starts on an empty store; no request has been handled.
Init ==
    /\ medications = NoRows /\ medicationSeq = 0
    /\ medicationReminders = NoRows /\ reminderSeq = 0
    /\ caregivers = NoRows /\ caregiverSeq = 0
    /\ userCaregivers = NoRows /\ userCaregiverSeq = 0
    /\ req = NoRequest
    /\ res = NoResponse

\* The response has left; the exchange is over.
Deliver ==
    /\ ~Idle
    /\ req' = NoRequest
    /\ res' = NoResponse
    /\ UNCHANGED store

\* The medication and reminder routes, each taking a request when none is
\* being handled.
MedicationRoutes ==
    \/ Idle /\ \E s \in Sessions : ListMedications(s)
    \/ Idle /\ \E s \in Sessions, p \in IdParams : GetMedication(s, p)
    \/ Idle /\ \E s \in Sessions, b \in MedicationBodies : PostMedication(s, b)
    \/ Idle /\ \E s \in Sessions, p \in IdParams, b \in MedicationBodies :
          PutMedication(s, p, b)
    \/ Idle /\ \E s \in Sessions, p \in IdParams, m \in DeleteModes :
          DeleteMedication(s, p, m)
    \/ Idle /\ \E s \in Sessions, p \in IdParams : GetMedicationReminders(s, p)
    \/ Idle /\ \E s \in Sessions, p \in IdParams, b \in ReminderBodies :
          PutReminder(s, p, b)
    \/ Idle /\ \E m \in 1..MaxRows : CreateReminder(m)

\* The caregiver routes.
CaregiverRoutes ==
    \/ Idle /\ \E s \in Sessions : ListCaregivers(s)
    \/ Idle /\ \E s \in Sessions, b \in CaregiverBodies : PostCaregiver(s, b)
    \/ Idle /\ \E s \in Sessions, p \in IdParams, b \in AccessBodies :
          PutCaregiverAccess(s, p, b)

Next == MedicationRoutes \/ CaregiverRoutes \/ Deliver

Spec == Init /\ [][Next]_vars

\* The two halves of the API share no table: each is also checked alone.
NextMedications == MedicationRoutes \/ Deliver

SpecMedications == Init /\ [][NextMedications]_vars

NextCaregivers == CaregiverRoutes \/ Deliver

SpecCaregivers == Init /\ [][NextCaregivers]_vars

\* ------------------------------------------------------------- the claims

\* A step in which the handler of `route` takes a request and answers it:
\* req' is the request, res' the response, the unprimed tables the store
\* before the request and the primed ones the store after it.
Handles(route) == Idle /\ req'.route = route

MedicationIdRoutes ==
    {"GET /api/medications/:id", "PUT /api/medications/:id",
     "DELETE /api/medications/:id", "GET /api/medications/:id/reminders"}

\* The table an :id-scoped route looks its :id up in.
TargetIds(route) ==
    IF route \in MedicationIdRoutes THEN DOMAIN medications
    ELSE IF route = "PUT /api/reminders/:id" THEN DOMAIN medicationReminders
    ELSE IF route = "PUT /api/caregivers/:id/access" THEN DOMAIN userCaregivers
    ELSE {}

IdRoutes ==
    MedicationIdRoutes
        \cup {"PUT /api/reminders/:id", "PUT /api/caregivers/:id/access"}

\* The owner of the resource request r targets, when the resource exists:
\* a medication's userId, the userId of a reminder's medication, a link's
\* userId.  A reminder whose medication is gone has no owner.
TargetOwners(r) ==
    LET id == parseInt(r.id)
    IN  IF r.route \in MedicationIdRoutes
        THEN {m.userId : m \in getMedication(id)}
        ELSE IF r.route = "PUT /api/reminders/:id"
        THEN {m.userId : m \in UNION {getMedication(x.medicationId) :
                                        x \in getMedicationReminder(id)}}
        ELSE {l.userId : l \in getUserCaregiver(id)}

\* C1: for every reminder R whose medication is owned by a user other than
\* the session user U, PUT /api/reminders/:R.id as U returns 403 and leaves
\* R's taken, skipped and takenAt as they were.
C1_ForeignReminderUntouched ==
    [][(/\ Handles("PUT /api/reminders/:id")
        /\ ensureAuthenticated(req'.session)
        /\ \E r \in getMedicationReminder(parseInt(req'.id)) :
              \E m \in getMedication(r.medicationId) :
                  m.userId # req'.session.user)
       => /\ res'.status = 403
          /\ medicationReminders' = medicationReminders]_vars

\* The request the session user 2 sends for a reminder of user 1's
\* medication has been answered 403 and the reminder reads taken.
C1_ForeignReminderChanged ==
    /\ req.route = "PUT /api/reminders/:id"
    /\ res.status = 403
    /\ \E r \in getMedicationReminder(parseInt(req.id)) :
          /\ r.taken
          /\ \E m \in getMedication(r.medicationId) :
                m.userId # req.session.user

\* The body checks of the routes that validate: what the schema of the
\* route accepts.
BodyAccepted(r) ==
    IF r.route = "POST /api/medications"
    THEN medicationFormSchema([r.body EXCEPT !.userId = Num(r.session.user)])
    ELSE IF r.route = "PUT /api/medications/:id"
    THEN medicationSchemaPartial(r.body)
    ELSE IF r.route = "POST /api/caregivers"
    THEN /\ caregiverFormSchema(r.body)
         /\ ~DuplicateUsername(r.body)
         /\ userCaregiverSchema([accessLevel |-> linkAccessLevel(r.body),
                                  active |-> Bool(TRUE)])
    ELSE TRUE

\* The code of the earliest check request r fails, in the order
\* authentication, existence, ownership, validation; 0 when it passes all.
FirstFailure(r) ==
    IF ~ensureAuthenticated(r.session) THEN 401
    ELSE IF r.route \in IdRoutes /\ parseInt(r.id) \notin TargetIds(r.route)
    THEN 404
    ELSE IF r.route \in IdRoutes /\ TargetOwners(r) # {r.session.user}
    THEN 403
    ELSE IF ~BodyAccepted(r) THEN 400
    ELSE 0

\* C2: on every protected route the checks run in the order authentication
\* (401), existence (404), ownership (403), validation (400), then the
\* write: a request that fails a check is answered with the code of the
\* earliest check it fails, and a request that fails authentication,
\* existence or ownership has written nothing to the store.
C2_ChecksBeforeWrites ==
    [][(Idle /\ ~Idle' /\ FirstFailure(req') # 0)
       => /\ res'.status = FirstFailure(req')
          /\ FirstFailure(req') \in {401, 404, 403} => store' = store]_vars

\* C3: for every medication M and every authenticated user U who is not
\* M's owner, GET, PUT and DELETE /api/medications/:M.id and
\* GET /api/medications/:M.id/reminders as U return 403 and leave M and its
\* reminders (the whole store) unchanged.
C3_ForeignMedication403 ==
    [][(/\ Idle /\ req'.route \in MedicationIdRoutes
        /\ ensureAuthenticated(req'.session)
        /\ \E m \in getMedication(parseInt(req'.id)) :
              m.userId # req'.session.user)
       => /\ res'.status = 403
          /\ store' = store]_vars

\* A PUT that would hand user 1's medication, which has a reminder, to the
\* requester has been answered 403.
C3_Witness ==
    /\ req.route = "PUT /api/medications/:id"
    /\ res.status = 403
    /\ ensureAuthenticated(req.session)
    /\ req.body.userId = Num(req.session.user)
    /\ medicationSchemaPartial(req.body)
    /\ \E m \in getMedication(parseInt(req.id)) :
          /\ m.userId # req.session.user
          /\ getMedicationReminders(m.id) # {}

\* C4: every :id-scoped route called by an authenticated user with an :id
\* that identifies no row of the table it looks up returns 404 and leaves
\* the store unchanged.
C4_MissingId404 ==
    [][(/\ Idle /\ req'.route \in IdRoutes
        /\ ensureAuthenticated(req'.session)
        /\ parseInt(req'.id) \notin TargetIds(req'.route))
       => /\ res'.status = 404
          /\ store' = store]_vars

\* DELETE for the id of a medication deleted before, while another
\* medication and a caregiver link exist, has been answered 404.
C4_Witness ==
    /\ req.route = "DELETE /api/medications/:id"
    /\ res.status = 404
    /\ ensureAuthenticated(req.session)
    /\ parseInt(req.id) \in 1..medicationSeq
    /\ parseInt(req.id) \notin DOMAIN medications
    /\ userCaregivers # NoRows

\* C5: POST /api/caregivers with a body whose password differs from its
\* confirmPassword creates no caregiver and no link, and is answered 400
\* when it comes with a session (401 is the answer without one).
C5_PasswordMismatch400 ==
    [][(/\ Handles("POST /api/caregivers")
        /\ req'.body.password # req'.body.confirmPassword)
       => /\ careStore' = careStore
          /\ ensureAuthenticated(req'.session) => res'.status = 400]_vars

\* A form valid but for its confirmPassword, with a free username, has been
\* answered 400.
C5_Witness ==
    /\ req.route = "POST /api/caregivers"
    /\ res.status = 400
    /\ ensureAuthenticated(req.session)
    /\ caregiverFormFields(req.body)
    /\ ~passwordsMatch(req.body)
    /\ ~DuplicateUsername(req.body)
    /\ caregivers = NoRows

\* No two caregiver rows share a username.
UniqueUsernames ==
    \A c, d \in Rows(caregivers) : c.username = d.username => c = d

\* C6: POST /api/caregivers with a valid form whose username belongs to a
\* caregiver of the store returns 400 and creates no caregiver; no two
\* caregivers of the store ever share a username.
C6_DuplicateUsername400 ==
    /\ []UniqueUsernames
    /\ [][(/\ Handles("POST /api/caregivers")
           /\ ensureAuthenticated(req'.session)
           /\ caregiverFormSchema(req'.body)
           /\ \E c \in Rows(caregivers) :
                 c.username = req'.body.username.str)
          => /\ res'.status = 400
             /\ careStore' = careStore]_vars

\* A valid form with the username of one of two caregivers has been
\* answered 400.
C6_Witness ==
    /\ req.route = "POST /api/caregivers"
    /\ res.status = 400
    /\ caregiverFormSchema(req.body)
    /\ req.body.accessLevel = Undefined
    /\ \E c \in Rows(caregivers) : c.username = req.body.username.str
    /\ Cardinality(DOMAIN caregivers) = 2

\* The ids the serial of medications has handed out whose row is gone.
DeletedMedications == (1..medicationSeq) \ DOMAIN medications

\* C7: when the owner of M issues DELETE /api/medications/:M.id and the
\* store deletes M, the response is 204; M's id is never handed out again,
\* and every later GET /api/medications/:M.id by an authenticated user
\* returns 404.
C7_DeletedThenNotFound ==
    [][/\ (/\ Handles("DELETE /api/medications/:id")
           /\ medications' # medications)
          => /\ res'.status = 204
             /\ parseInt(req'.id) \in DeletedMedications'
             /\ \E m \in getMedication(parseInt(req'.id)) :
                   m.userId = req'.session.user
       /\ DeletedMedications \subseteq DeletedMedications'
       /\ (/\ Handles("GET /api/medications/:id")
           /\ ensureAuthenticated(req'.session)
           /\ parseInt(req'.id) \in DeletedMedications)
          => res'.status = 404]_vars

\* GET for the id of a deleted medication has been answered 404, after a
\* later medication was created.
C7_Witness ==
    /\ req.route = "GET /api/medications/:id"
    /\ res.status = 404
    /\ ensureAuthenticated(req.session)
    /\ parseInt(req.id) \in DeletedMedications
    /\ \E m \in Rows(medications) : m.id > parseInt(req.id)

\* What POST /api/caregivers answered 201 has done: one caregiver more, one
\* link more, the link from the session user to the new caregiver, active,
\* with the access level `level`, which the response repeats.
CreatedWithLevel(level) ==
    \E c \in Rows(caregivers'), l \in Rows(userCaregivers') :
        /\ caregivers' = Insert(caregivers, c)
        /\ c.id \notin DOMAIN caregivers
        /\ userCaregivers' = Insert(userCaregivers, l)
        /\ l.id \notin DOMAIN userCaregivers
        /\ l.userId = req'.session.user
        /\ l.caregiverId = c.id
        /\ l.active
        /\ Str(l.accessLevel) = level
        /\ res'.json.id = c.id
        /\ res'.json.accessLevel = l.accessLevel

\* C8 as stated: every POST /api/caregivers answered 201 has created one
\* caregiver and one active link from the session user to it, whose
\* accessLevel is the requested value, "full" when the body gives none.
C8_LevelAsRequested ==
    [][(Handles("POST /api/caregivers") /\ res'.status = 201)
       => CreatedWithLevel(IF req'.body.accessLevel = Undefined
                           THEN Str("full")
                           ELSE req'.body.accessLevel)]_vars

\* C8, amended: the accessLevel of the link is the requested value when
\* that value is truthy, and "full" when the body gives none or a falsy
\* one (the empty string).
C8_LevelOrFull ==
    [][(Handles("POST /api/caregivers") /\ res'.status = 201)
       => CreatedWithLevel(IF Truthy(req'.body.accessLevel)
                           THEN req'.body.accessLevel
                           ELSE Str("full"))]_vars

\* A request for the access level "limited" has been answered 201 and the
\* link of the new caregiver carries it.
C8_Witness ==
    /\ req.route = "POST /api/caregivers"
    /\ res.status = 201
    /\ req.body.accessLevel = Str("limited")
    /\ \E l \in Rows(userCaregivers) :
          /\ l.caregiverId = res.json.id
          /\ l.userId = req.session.user
          /\ l.accessLevel = "limited"

\* C9: for every link L whose userId is not the session user U,
\* PUT /api/caregivers/:L.id/access as U returns 403 and leaves L's
\* accessLevel and active as they were.
C9_ForeignLinkUntouched ==
    [][(/\ Handles("PUT /api/caregivers/:id/access")
        /\ ensureAuthenticated(req'.session)
        /\ \E l \in getUserCaregiver(parseInt(req'.id)) :
              l.userId # req'.session.user)
       => /\ res'.status = 403
          /\ userCaregivers' = userCaregivers]_vars

\* C10: POST /api/medications stores the session user's id as userId
\* whatever userId the body carries, and no request changes the userId of a
\* medication of the store.
C10_OwnerFixed ==
    [][/\ (Handles("POST /api/medications") /\ res'.status = 201)
          => /\ res'.json.userId = req'.session.user
             /\ res'.json.id \notin DOMAIN medications
             /\ medications' = Insert(medications, res'.json)
       /\ \A id \in DOMAIN medications \cap DOMAIN medications' :
             medications'[id].userId = medications[id].userId]_vars

====
